---- MODULE Spec2Model ----
(***************************************************************************)
(* camoufox-launchOptions: the launch-option assembler                     *)
(* (camoufoxLaunchOptions) with its collaborators getPublicIP,             *)
(* getGeolocationAndLocale, launchPath and addToConfig.                    *)
(*                                                                         *)
(* One behaviour is one call of one exported function (the variable entry  *)
(* names it).  A JavaScript value is a record [t, b, n, s]: t is the       *)
(* typeof tag, b the boolean, n the number, s the string; a string is a    *)
(* sequence of chunks, so that trim and join act on it.  An optional       *)
(* value (a result not yet produced, a thrown error) is a sequence of      *)
(* length 0 or 1.                                                          *)
(***************************************************************************)
EXTENDS Integers, Sequences, FiniteSets, TLC

VARIABLES
    entry,        \* the exported function this behaviour calls
    pc,           \* position of the call
    input,        \* camoufoxLaunchOptions: the raw options
    zvui,         \* camoufoxLaunchOptions: userInput.data, <<>> before the parse
    execPath,     \* vaildatedExecutablePath, <<>> before launchPath returns
    mainConfig,   \* the engine-setting map
    firefoxPrefs, \* the preference map
    processEnv,   \* process.env
    ipInput,      \* getPublicIP: its input argument
    ipProxy,      \* getPublicIP: its proxy argument
    customKy,     \* getPublicIP: the ky instance built, "none" before
    svc,          \* getPublicIP: index of the next service of whatsMyIPList
    ipv4Set,      \* getPublicIP: ipv4Set, in insertion order
    ipv6Set,      \* getPublicIP: ipv6Set, in insertion order
    net,          \* what the detection services can answer in this run
    publicIP,     \* the value getPublicIP returned, <<>> before
    geoIn,        \* getGeolocationAndLocale: its ipObject argument
    geoData,      \* the value getGeolocationAndLocale returned, <<>> before
    ioLog,        \* every I/O operation performed so far, with its outcome
    err,          \* the error the call threw, <<>> if none
    ret,          \* the value the call returned, <<>> if none
    accLog        \* addToConfig: the calls made so far on mainConfig

vars == << entry, pc, input, zvui, execPath, mainConfig, firefoxPrefs, processEnv,
           ipInput, ipProxy, customKy, svc, ipv4Set, ipv6Set, net, publicIP,
           geoIn, geoData, ioLog, err, ret, accLog >>

-----------------------------------------------------------------------------
(* JavaScript values *)

Undef == [t |-> "undefined", b |-> FALSE, n |-> 0, s |-> <<>>]
Bool(x) == [t |-> "boolean", b |-> x, n |-> 0, s |-> <<>>]
Num(k) == [t |-> "number", b |-> FALSE, n |-> k, s |-> <<>>]
Str(x) == [t |-> "string", b |-> FALSE, n |-> 0, s |-> x]
Lit(x) == Str(<<x>>)

\* JavaScript truthiness: if (v)
Truthy(v) ==
    CASE v.t = "undefined" -> FALSE
      [] v.t = "boolean" -> v.b
      [] v.t = "number" -> v.n # 0
      [] v.t = "string" -> v.s # <<>> /\ v.s # <<"">>
      [] OTHER -> TRUE

EmptyMap == [k \in {} |-> Undef]

\* { ...a, ...b }: the later spread wins on a key both have
Spread(a, b) == [k \in DOMAIN a \cup DOMAIN b |-> IF k \in DOMAIN b THEN b[k] ELSE a[k]]

-----------------------------------------------------------------------------
(* helper: addToConfig *)

\* Property names every object literal inherits from Object.prototype; the
\* in operator sees them on a map created by {}.
ObjectPrototypeKeys == {"constructor", "toString"}

\* key in target
KeyIn(key, target) == key \in DOMAIN target \/ key \in ObjectPrototypeKeys

addToConfig(target, key, value) ==
    IF ~KeyIn(key, target)
    THEN [k \in DOMAIN target \cup {key} |-> IF k = key THEN value ELSE target[k]]
    ELSE target

-----------------------------------------------------------------------------
(* zod string formats *)

IPv4Literals == {"203.0.113.7", "198.51.100.9"}
IPv6Literals == {"2001:db8::1", "2001:db8::2"}
DomainNames == {"a.com", "b.com"}
Whitespace == {" ", "\n"}

\* z.ipv4().safeParse(v).success
isIPv4(v) == v.t = "string" /\ Len(v.s) = 1 /\ v.s[1] \in IPv4Literals
\* z.ipv6().safeParse(v).success
isIPv6(v) == v.t = "string" /\ Len(v.s) = 1 /\ v.s[1] \in IPv6Literals

RECURSIVE TrimStart(_)
TrimStart(s) == IF s # <<>> /\ Head(s) \in Whitespace THEN TrimStart(Tail(s)) ELSE s
RECURSIVE TrimEnd(_)
TrimEnd(s) ==
    IF s # <<>> /\ s[Len(s)] \in Whitespace THEN TrimEnd(SubSeq(s, 1, Len(s) - 1)) ELSE s
\* String.prototype.trim
Trim(s) == TrimEnd(TrimStart(s))

\* bypassList.split(","): the chunks between the commas
Split(s) == SelectSeq(s, LAMBDA c : c # ",")

\* the refinement of proxy.bypass: every domain of the list passes the regex
bypassRefine(s) == \A i \in 1..Len(Split(s)) : Split(s)[i] \in DomainNames

-----------------------------------------------------------------------------
(* main: zodCamoufoxLaunchOptions *)

NoUrl == [protocol |-> "", host |-> "", port |-> "", path |-> ""]
NoProxy == [t |-> "undefined", server |-> NoUrl, username |-> Undef,
            password |-> Undef, bypass |-> Undef]
Proxy(u, user, pass, byp) ==
    [t |-> "object", server |-> u, username |-> user, password |-> pass, bypass |-> byp]

NoGeoip == [t |-> "undefined", b |-> FALSE, ipv4 |-> Undef, ipv6 |-> Undef]
GeoBool(x) == [t |-> "boolean", b |-> x, ipv4 |-> Undef, ipv6 |-> Undef]
IpSpec(a, b) == [t |-> "object", b |-> FALSE, ipv4 |-> a, ipv6 |-> b]

\* if (zvui.geoip)
GeoipTruthy(g) == g.t = "object" \/ (g.t = "boolean" /\ g.b)

Lower(h) == IF h = "Proxy.Example.com" THEN "proxy.example.com" ELSE h
SpecialSchemes == {"http", "https"}
\* new URL(server).href: a special scheme has its host lower-cased and its
\* empty path replaced by "/"
href(u) ==
    IF u.protocol \in SpecialSchemes
    THEN [u EXCEPT !.host = Lower(u.host), !.path = IF u.path = "" THEN "/" ELSE u.path]
    ELSE u

\* z.url({protocol: /(^https?$|^socks5$)/})
serverOK(u) == u.protocol \in {"http", "https", "socks5"}

optionalBoolean(v) == v.t \in {"undefined", "boolean"}
optionalString(v) == v.t \in {"undefined", "string"}
\* z.optional(z.union([z.boolean(), z.number().check(z.positive())]))
humanizeOK(v) == v.t \in {"undefined", "boolean"} \/ (v.t = "number" /\ v.n > 0)

\* the strictObject of proxy
proxyOK(p) ==
    /\ p.t = "object"
    /\ serverOK(p.server)
    /\ optionalString(p.username)
    /\ optionalString(p.password)
    /\ (p.bypass.t = "undefined" \/ (p.bypass.t = "string" /\ bypassRefine(p.bypass.s)))

\* z.union([z.boolean(), z.discriminatedUnion("ipv4", [...])])
geoipOK(g) ==
    \/ g.t = "boolean"
    \/ /\ g.t = "object"
       /\ \/ isIPv4(g.ipv4) /\ (g.ipv6.t = "undefined" \/ isIPv6(g.ipv6))
          \/ (g.ipv4.t = "undefined" \/ isIPv4(g.ipv4)) /\ isIPv6(g.ipv6)

restOK(in) ==
    /\ optionalBoolean(in.headless)
    /\ humanizeOK(in.humanize)
    /\ optionalBoolean(in.enableCache)
    /\ optionalString(in.executablePath)

\* first option: proxy undefined, geoip optional
noProxyBranch(in) ==
    /\ in.proxy.t = "undefined"
    /\ (in.geoip.t = "undefined" \/ geoipOK(in.geoip))
    /\ restOK(in)

proxyBranchGeoipOptional(in) ==
    /\ proxyOK(in.proxy)
    /\ (in.geoip.t = "undefined" \/ geoipOK(in.geoip))
    /\ restOK(in)

\* second option: proxy an object, geoip required
proxyBranch(in) ==
    /\ proxyOK(in.proxy)
    /\ geoipOK(in.geoip)
    /\ restOK(in)

\* zodCamoufoxLaunchOptions.safeParse(in).success
safeParseSuccess(in) == noProxyBranch(in) \/ proxyBranch(in)

\* userInput.data: the input with proxy.server normalized
safeParseData(in) ==
    IF in.proxy.t = "object"
    THEN [in EXCEPT !.proxy.server = href(in.proxy.server)]
    ELSE in

-----------------------------------------------------------------------------
(* launchPath *)

defaultInstall == <<"home", ".cache", "camoufox">>
camoufoxExecutable == "camoufox-bin"

\* path.parse(p).dir
ParsedDir(p) == IF p = <<>> THEN <<>> ELSE SubSeq(p, 1, Len(p) - 1)
\* path.resolve(dir, name)
Resolve(dir, name) == Append(dir, name)

\* customInstall ? customInstall : defaultInstall
installDirectory(customInstall) ==
    IF Truthy(customInstall) THEN customInstall.s ELSE defaultInstall

StatOutcomes == {"missing", "file", "dir"}

IO(op, target, out) == [op |-> op, target |-> target, out |-> out]

-----------------------------------------------------------------------------
(* proxy: getKyInstance, getPublicIP *)

whatsMyIPList == << "https://api.ipify.org", "https://checkip.amazonaws.com",
                    "https://icanhazip.com", "https://ifconfig.co/ip",
                    "https://ipecho.net/plain", "https://ipinfo.io/ip" >>

\* What one GET can end in: the request rejects, or a response arrives.
Outcomes == {"rejects", "nonok", "garbage", "v4a", "v4b", "v6a"}
ResponseOk(o) == o \in {"garbage", "v4a", "v4b", "v6a"}
ResponseText(o) ==
    CASE o = "nonok" -> <<"198.51.100.9">>
      [] o = "garbage" -> <<"<html>", " ", "blocked">>
      [] o = "v4a" -> <<" ", "203.0.113.7", "\n">>
      [] o = "v4b" -> <<"198.51.100.9">>
      [] o = "v6a" -> <<"2001:db8::1", "\n">>
      [] OTHER -> <<>>

False == Bool(FALSE)
IpObject(a, b) == [ipv4 |-> a, ipv6 |-> b]

\* ipInputObject.safeParse(input).success
ipInputObjectOK(g) ==
    /\ g.t = "object"
    /\ (g.ipv4.t = "undefined" \/ isIPv4(g.ipv4))
    /\ (g.ipv6.t = "undefined" \/ isIPv6(g.ipv6))

explicitIPv4Only(g) ==
    IpObject(IF Truthy(g.ipv4) THEN g.ipv4 ELSE False, False)

\* the explicit branch: carry each family through, false when absent
explicitIP(g) ==
    IpObject(IF Truthy(g.ipv4) THEN g.ipv4 ELSE False,
             IF Truthy(g.ipv6) THEN g.ipv6 ELSE False)

\* getKyInstance: the dispatcher built for the proxy, "throws" when the
\* protocol is neither http(s) nor socks5
getKyInstance(proxy) ==
    IF proxy.t = "object"
    THEN CASE proxy.server.protocol \in {"http", "https"} -> "ProxyAgent"
           [] proxy.server.protocol = "socks5" -> "socksDispatcher"
           [] OTHER -> "throws"
    ELSE "ky"

\* Set.prototype.add on a set kept in insertion order
SetAdd(set, x) == IF \E i \in 1..Len(set) : set[i] = x THEN set ELSE Append(set, x)

LastValue(set) == IF set = <<>> THEN Undef ELSE Str(set[Len(set)])

\* set.values().next().value
FirstValue(set) == IF set = <<>> THEN Undef ELSE Str(set[1])

\* one iteration of the loop on a response: the two sets afterwards
addResponse(o, sets) ==
    IF ResponseOk(o)
    THEN LET pubIP == Str(Trim(ResponseText(o)))
         IN  [v4 |-> IF isIPv4(pubIP) THEN SetAdd(sets.v4, pubIP.s) ELSE sets.v4,
              v6 |-> IF isIPv6(pubIP) THEN SetAdd(sets.v6, pubIP.s) ELSE sets.v6]
    ELSE sets

\* lines 95-104: one representative of each set, false for an empty one
selectIP(sets) ==
    LET IPv4 == FirstValue(sets.v4)
        IPv6 == FirstValue(sets.v6)
    IN  IpObject(IF isIPv4(IPv4) THEN IPv4 ELSE False,
                 IF isIPv6(IPv6) THEN IPv6 ELSE False)

-----------------------------------------------------------------------------
(* geoData: pickPubIP, getGeolocationAndLocale *)

\* pickPubIP: <<ip>>, or <<>> when it throws
pickPubIP(ipObject) ==
    IF ipObject.ipv4.t = "string" /\ ipObject.ipv6 = False THEN <<ipObject.ipv4>>
    ELSE IF ipObject.ipv4 = False /\ ipObject.ipv6.t = "string" THEN <<ipObject.ipv6>>
    ELSE IF ipObject.ipv4.t = "string" /\ ipObject.ipv6.t = "string" THEN <<ipObject.ipv4>>
    ELSE <<>>

\* what cityLookup.get can return: nothing, a record without location, a
\* record whose location has or lacks time_zone
CityOutcomes == {"none", "noLocation", "loc", "locNoTz"}
\* what countryLookup.get can return
CountryOutcomes == {"none", "noCountry", "US", "ZZ"}

Location(c) ==
    [longitude |-> Num(-122), latitude |-> Num(37), accuracy_radius |-> Num(20),
     time_zone |-> IF c = "loc" THEN Lit("America/Los_Angeles") ELSE Undef]

\* clm.getCountryByAlpha2(iso).locales, <<>> when the code is unknown
clmLocales(iso) == IF iso = "US" THEN <<"en-US", "es-US">> ELSE <<>>
clmKnown(iso) == iso = "US"

RECURSIVE Join(_, _)
\* Array.prototype.join(sep)
Join(list, sep) ==
    IF Len(list) <= 1 THEN list
    ELSE <<list[1], sep>> \o Join(Tail(list), sep)

GeoRecord(lon, lat, acc, tz, loc) ==
    [longitude |-> lon, latitude |-> lat, accuracy |-> acc, timezone |-> tz, locales |-> loc]

E_ENOENT == "ENOENT: no such file or directory"
E_NotInstalled == "Camoufox is Not Installed"
E_Validation == "prettifyError(userInput.error)"
E_Request == "ky request failed"
E_Protocol == "Unsupported Proxy Protocol"
E_Detection == "Failed to automatically get public IP"
E_NoIP == "Geolocation and Locale error, A valid IP address is requied"
E_NoMmdb == "Geolocation and Locale error, '.mmdb' file not found"
E_NoGeoData == "Geolocation and Locale error, No geoData found for current IP"
E_UnknownIso == "Geolocation and Locale error, Unknown iso country code"

\* lines 45-66 on the two lookup results: [err, data]
lookupResult(city, country) ==
    IF city # "none" /\ country # "none"
    THEN IF city # "noLocation" /\ country # "noCountry"
         THEN IF clmKnown(country)
              THEN [err |-> <<>>,
                    data |-> <<GeoRecord(Location(city).longitude, Location(city).latitude,
                                         Location(city).accuracy_radius,
                                         Location(city).time_zone,
                                         Str(Join(clmLocales(country), ", ")))>>]
              ELSE [err |-> <<E_UnknownIso>>, data |-> <<>>]
         ELSE [err |-> <<E_NoGeoData>>, data |-> <<>>]
    ELSE [err |-> <<E_NoGeoData>>, data |-> <<>>]

-----------------------------------------------------------------------------
(* main: camoufoxLaunchOptions, the steps between its awaits *)

\* lines 226-231
withPublicIP(mc, ip) ==
    LET m1 == IF Truthy(ip.ipv4) THEN addToConfig(mc, "webrtc:ipv4", ip.ipv4) ELSE mc
    IN  IF Truthy(ip.ipv6) THEN addToConfig(m1, "webrtc:ipv6", ip.ipv6) ELSE m1

\* lines 235-241
withGeoData(mc, gd) ==
    LET m1 == addToConfig(mc, "geolocation:longitude", gd.longitude)
        m2 == addToConfig(m1, "geolocation:latitude", gd.latitude)
        m3 == addToConfig(m2, "geolocation:accuracy", gd.accuracy)
        m4 == addToConfig(m3, "locale:all", gd.locales)
    IN  IF Truthy(gd.timezone) THEN addToConfig(m4, "timezone", gd.timezone) ELSE m4

\* lines 245-250
withHumanize(mc, h) ==
    IF Truthy(h)
    THEN LET m1 == addToConfig(mc, "humanize", Bool(TRUE))
         IN  IF h.t = "number" THEN addToConfig(m1, "humanize:maxTime", h) ELSE m1
    ELSE mc

withCacheWhenDefined(fp, c) ==
    IF c.t # "undefined"
    THEN LET f1 == addToConfig(fp, "browser.sessionhistory.max_entries", Num(10))
             f2 == addToConfig(f1, "browser.sessionhistory.max_total_viewers", Num(-1))
             f3 == addToConfig(f2, "browser.cache.memory.enable", Bool(TRUE))
             f4 == addToConfig(f3, "browser.cache.disk_cache_ssl", Bool(TRUE))
         IN  addToConfig(f4, "browser.cache.disk.smart_size.enabled", Bool(TRUE))
    ELSE fp

\* lines 253-259
withCache(fp, c) ==
    IF Truthy(c)
    THEN LET f1 == addToConfig(fp, "browser.sessionhistory.max_entries", Num(10))
             f2 == addToConfig(f1, "browser.sessionhistory.max_total_viewers", Num(-1))
             f3 == addToConfig(f2, "browser.cache.memory.enable", Bool(TRUE))
             f4 == addToConfig(f3, "browser.cache.disk_cache_ssl", Bool(TRUE))
         IN  addToConfig(f4, "browser.cache.disk.smart_size.enabled", Bool(TRUE))
    ELSE fp

\* configCheck.safeParse(m).success
configCheck(m) == \A k \in DOMAIN m : m[k].t \in {"string", "number", "boolean"}

\* lines 277-280: the engine settings spread first, process.env spread last
envVars(mc, penv) == Spread(mc, penv)

\* line 217
headlessMode(h) == IF h.t # "undefined" THEN h ELSE Bool(TRUE)

LaunchOptionsWithoutProxy(path, env, proxy, prefs, headless) ==
    [executablePath |-> path, env |-> env, proxy |-> NoProxy,
     firefoxUserPrefs |-> prefs, headless |-> headless]

\* lines 283-289
LaunchOptions(path, env, proxy, prefs, headless) ==
    [executablePath |-> path, env |-> env, proxy |-> proxy,
     firefoxUserPrefs |-> prefs, headless |-> headless]

\* the launchPath check run before the parse result is looked at
ValidateAfterStat ==
    /\ entry = "main" /\ pc = "start"
    /\ ioLog' = Append(ioLog, IO("stat", ParsedDir(installDirectory(input.executablePath)), "dir"))
    /\ IF safeParseSuccess(input)
       THEN /\ zvui' = <<safeParseData(input)>>
            /\ pc' = "statExecutable"
            /\ err' = err
       ELSE /\ zvui' = zvui
            /\ pc' = "done"
            /\ err' = <<E_Validation>>
    /\ UNCHANGED << entry, input, execPath, mainConfig, firefoxPrefs, processEnv, ipInput,
                    ipProxy, customKy, svc, ipv4Set, ipv6Set, net, publicIP, geoIn,
                    geoData, ret, accLog >>

\* lines 187-205: the parse, then the call of launchPath
Validate ==
    /\ entry = "main" /\ pc = "start"
    /\ IF safeParseSuccess(input)
       THEN /\ zvui' = <<safeParseData(input)>>
            /\ pc' = "statDirectory"
            /\ err' = err
       ELSE /\ zvui' = zvui
            /\ pc' = "done"
            /\ err' = <<E_Validation>>
    /\ UNCHANGED << entry, input, execPath, mainConfig, firefoxPrefs, processEnv, ipInput,
                    ipProxy, customKy, svc, ipv4Set, ipv6Set, net, publicIP, geoIn,
                    geoData, ioLog, ret, accLog >>

\* checkIfCamoufoxIsInstalled: fs.stat(parsedDirectory.dir)
StatDirectory ==
    /\ entry = "main" /\ pc = "statDirectory"
    /\ \E out \in StatOutcomes :
         /\ ioLog' = Append(ioLog,
                IO("stat", ParsedDir(installDirectory(zvui[1].executablePath)), out))
         /\ CASE out = "missing" -> pc' = "done" /\ err' = <<E_ENOENT>>
              [] out = "file" -> pc' = "done" /\ err' = <<E_NotInstalled>>
              [] OTHER -> pc' = "statExecutable" /\ err' = err
    /\ UNCHANGED << entry, input, zvui, execPath, mainConfig, firefoxPrefs, processEnv,
                    ipInput, ipProxy, customKy, svc, ipv4Set, ipv6Set, net, publicIP,
                    geoIn, geoData, ret, accLog >>

\* the call returns to its caller: main goes on, a direct call is done
ReturnTo(next) == IF entry = "main" THEN next ELSE "done"

\* validatedExecutablePath: fs.stat(parsedExecutable); then line 223
StatExecutable ==
    /\ entry = "main" /\ pc = "statExecutable"
    /\ LET z == zvui[1]
           exe == Resolve(ParsedDir(installDirectory(z.executablePath)), camoufoxExecutable)
       IN  \E out \in StatOutcomes :
             /\ ioLog' = Append(ioLog, IO("stat", exe, out))
             /\ CASE out = "missing" ->
                       /\ pc' = "done" /\ err' = <<E_ENOENT>>
                       /\ UNCHANGED << execPath, ipInput, ipProxy >>
                  [] out = "dir" ->
                       /\ pc' = "done" /\ err' = <<E_NotInstalled>>
                       /\ UNCHANGED << execPath, ipInput, ipProxy >>
                  [] OTHER ->
                       /\ execPath' = <<exe>>
                       /\ err' = err
                       /\ IF GeoipTruthy(z.geoip)
                          THEN /\ pc' = "getPublicIP"
                               /\ ipInput' = z.geoip
                               /\ ipProxy' = z.proxy
                          ELSE /\ pc' = "assemble"
                               /\ UNCHANGED << ipInput, ipProxy >>
    /\ UNCHANGED << entry, input, zvui, mainConfig, firefoxPrefs, processEnv, customKy, svc,
                    ipv4Set, ipv6Set, net, publicIP, geoIn, geoData, ret, accLog >>

\* the detection-service answers possible in one run
AllNets == {Outcomes}
MainNets == {{"v4a"}, {"garbage"}, {"rejects", "v6a"}}
NetsFor(e) == IF e = "main" THEN MainNets ELSE AllNets

\* getPublicIP, lines 50-71: the explicit branch, or the ky instance
GetPublicIP ==
    /\ pc = "getPublicIP"
    /\ IF ipInputObjectOK(ipInput)
       THEN /\ publicIP' = <<explicitIP(ipInput)>>
            /\ pc' = ReturnTo("ipReturned")
            /\ UNCHANGED << customKy, svc, net, err >>
       ELSE IF getKyInstance(ipProxy) = "throws"
            THEN /\ err' = <<E_Protocol>>
                 /\ pc' = "done"
                 /\ UNCHANGED << customKy, svc, net, publicIP >>
            ELSE /\ customKy' = getKyInstance(ipProxy)
                 /\ svc' = 1
                 /\ net' \in NetsFor(entry)
                 /\ pc' = "ipLoop"
                 /\ UNCHANGED << err, publicIP >>
    /\ UNCHANGED << entry, input, zvui, execPath, mainConfig, firefoxPrefs, processEnv,
                    ipInput, ipProxy, ipv4Set, ipv6Set, geoIn, geoData, ioLog, ret, accLog >>

\* getPublicIP, lines 73-105: one GET and what follows its answer
QueryService ==
    /\ pc = "ipLoop"
    /\ \E o \in net :
         /\ ioLog' = Append(ioLog, IO("get", <<whatsMyIPList[svc]>>, o))
         /\ IF o = "rejects"
            THEN /\ err' = <<E_Request>>
                 /\ pc' = "done"
                 /\ UNCHANGED << svc, ipv4Set, ipv6Set, publicIP >>
            ELSE LET sets == addResponse(o, [v4 |-> ipv4Set, v6 |-> ipv6Set])
                 IN  /\ ipv4Set' = sets.v4
                     /\ ipv6Set' = sets.v6
                     /\ IF svc < Len(whatsMyIPList)
                        THEN /\ svc' = svc + 1
                             /\ pc' = pc
                             /\ UNCHANGED << err, publicIP >>
                        ELSE /\ svc' = svc
                             /\ IF Len(sets.v4) = 0 /\ Len(sets.v6) = 0
                                THEN /\ err' = <<E_Detection>>
                                     /\ pc' = "done"
                                     /\ publicIP' = publicIP
                                ELSE /\ publicIP' = <<selectIP(sets)>>
                                     /\ pc' = ReturnTo("ipReturned")
                                     /\ err' = err
    /\ UNCHANGED << entry, input, zvui, execPath, mainConfig, firefoxPrefs, processEnv,
                    ipInput, ipProxy, customKy, net, geoIn, geoData, ret, accLog >>

\* main, lines 226-233: the webrtc keys, then the call of the geo resolver
AfterPublicIP ==
    /\ entry = "main" /\ pc = "ipReturned"
    /\ mainConfig' = withPublicIP(mainConfig, publicIP[1])
    /\ geoIn' = publicIP[1]
    /\ pc' = "getGeolocationAndLocale"
    /\ UNCHANGED << entry, input, zvui, execPath, firefoxPrefs, processEnv, ipInput, ipProxy,
                    customKy, svc, ipv4Set, ipv6Set, net, publicIP, geoData, ioLog, err,
                    ret, accLog >>

mmdbFile == Resolve(ParsedDir(execPath[1]), "GeoLite2-City.mmdb")

\* getGeolocationAndLocale, lines 30-35: pickPubIP, then fs.stat is issued
GetGeolocationAndLocale ==
    /\ pc = "getGeolocationAndLocale"
    /\ IF pickPubIP(geoIn) = <<>>
       THEN pc' = "done" /\ err' = <<E_NoIP>>
       ELSE pc' = "statMmdb" /\ err' = err
    /\ UNCHANGED << entry, input, zvui, execPath, mainConfig, firefoxPrefs, processEnv,
                    ipInput, ipProxy, customKy, svc, ipv4Set, ipv6Set, net, publicIP,
                    geoIn, geoData, ioLog, ret, accLog >>

\* lines 35-36 and 68: fs.stat(mmdbFile) rejects on a missing file
StatMmdb ==
    /\ pc = "statMmdb"
    /\ \E out \in StatOutcomes :
         /\ ioLog' = Append(ioLog, IO("stat", mmdbFile, out))
         /\ CASE out = "missing" -> pc' = "done" /\ err' = <<E_ENOENT>>
              [] out = "dir" -> pc' = "done" /\ err' = <<E_NoMmdb>>
              [] OTHER -> pc' = "readMmdb" /\ err' = err
    /\ UNCHANGED << entry, input, zvui, execPath, mainConfig, firefoxPrefs, processEnv,
                    ipInput, ipProxy, customKy, svc, ipv4Set, ipv6Set, net, publicIP,
                    geoIn, geoData, ret, accLog >>

\* lines 37-66: fs.readFile, the two lookups and the record built from them
ReadMmdb ==
    /\ pc = "readMmdb"
    /\ \E city \in CityOutcomes, country \in CountryOutcomes :
         LET r == lookupResult(city, country)
         IN  /\ ioLog' = ioLog \o << IO("readFile", mmdbFile, "ok"),
                                     IO("cityLookup", pickPubIP(geoIn)[1].s, city),
                                     IO("countryLookup", pickPubIP(geoIn)[1].s, country) >>
             /\ err' = r.err
             /\ geoData' = r.data
             /\ pc' = IF r.err = <<>> THEN ReturnTo("geoReturned") ELSE "done"
    /\ UNCHANGED << entry, input, zvui, execPath, mainConfig, firefoxPrefs, processEnv,
                    ipInput, ipProxy, customKy, svc, ipv4Set, ipv6Set, net, publicIP,
                    geoIn, ret, accLog >>

\* main, lines 235-241
AfterGeoData ==
    /\ entry = "main" /\ pc = "geoReturned"
    /\ mainConfig' = withGeoData(mainConfig, geoData[1])
    /\ pc' = "assemble"
    /\ UNCHANGED << entry, input, zvui, execPath, firefoxPrefs, processEnv, ipInput, ipProxy,
                    customKy, svc, ipv4Set, ipv6Set, net, publicIP, geoIn, geoData, ioLog,
                    err, ret, accLog >>

\* main, lines 244-291: the humanize and cache keys, the final checks, the
\* merge and the return
Assemble ==
    /\ entry = "main" /\ pc = "assemble"
    /\ LET z == zvui[1]
           m == withHumanize(mainConfig, z.humanize)
           f == withCache(firefoxPrefs, z.enableCache)
       IN  /\ mainConfig' = m
           /\ firefoxPrefs' = f
           /\ pc' = "done"
           /\ IF configCheck(m) /\ configCheck(f) /\ configCheck(processEnv)
              THEN /\ ret' = <<LaunchOptions(Str(execPath[1]), envVars(m, processEnv),
                                             z.proxy, f, headlessMode(z.headless))>>
                   /\ err' = err
              ELSE /\ ret' = ret
                   /\ err' = <<E_Validation>>
    /\ UNCHANGED << entry, input, zvui, execPath, processEnv, ipInput, ipProxy, customKy,
                    svc, ipv4Set, ipv6Set, net, publicIP, geoIn, geoData, ioLog, accLog >>

MaxCalls == 3
AccKeys == {"k", "humanize", "constructor"}
AccValues == {Num(1), Num(2)}

\* helper: one call addToConfig(mainConfig, key, value)
AddCall ==
    /\ entry = "addToConfig" /\ pc = "calls"
    /\ Len(accLog) < MaxCalls
    /\ \E key \in AccKeys, value \in AccValues :
         /\ mainConfig' = addToConfig(mainConfig, key, value)
         /\ accLog' = Append(accLog, [key |-> key, value |-> value])
    /\ UNCHANGED << entry, pc, input, zvui, execPath, firefoxPrefs, processEnv, ipInput,
                    ipProxy, customKy, svc, ipv4Set, ipv6Set, net, publicIP, geoIn,
                    geoData, ioLog, err, ret >>

-----------------------------------------------------------------------------
(* the calls made *)

V4 == Lit("203.0.113.7")
V6 == Lit("2001:db8::2")

Url(protocol, host, port) == [protocol |-> protocol, host |-> host, port |-> port, path |-> ""]
HttpProxy == Proxy(Url("http", "Proxy.Example.com", "3128"), Undef, Undef,
                   Str(<<"a.com", ",", "b.com">>))
SocksProxy == Proxy(Url("socks5", "socks.example.com", "1080"), Lit("user"), Lit("secret"),
                    Undef)
FtpProxy == Proxy(Url("ftp", "files.example.com", ""), Undef, Undef, Undef)
BadBypassProxy == Proxy(Url("https", "proxy.example.com", ""), Undef, Undef,
                        Str(<<"a.com", ",", "not a domain", ",", "b.com">>))

Proxies == {NoProxy, HttpProxy, SocksProxy, FtpProxy, BadBypassProxy}
Geoips == {NoGeoip, GeoBool(TRUE), GeoBool(FALSE), IpSpec(V4, Undef), IpSpec(Undef, V6),
           IpSpec(V4, V6), IpSpec(Lit("999.1.1.1"), Undef)}
Humanizes == {Undef, Bool(TRUE), Bool(FALSE), Num(3), Num(0)}
Options ==
    [headless : {Undef, Bool(FALSE)},
     proxy : Proxies,
     geoip : Geoips,
     humanize : Humanizes,
     enableCache : {Undef, Bool(TRUE), Bool(FALSE)},
     executablePath : {Undef, Str(<<"opt", "camoufox", "current">>)}]

NoOptions ==
    [headless |-> Undef, proxy |-> NoProxy, geoip |-> NoGeoip, humanize |-> Undef,
     enableCache |-> Undef, executablePath |-> Undef]

\* process.env: every value is a string
ProcessEnvs ==
    { EmptyMap,
      [k \in {"PATH"} |-> Lit("/usr/bin")],
      [k \in {"PATH", "humanize", "geolocation:longitude"} |->
          IF k = "PATH" THEN Lit("/usr/bin") ELSE Lit("0")] }

\* what every call starts from
Fresh ==
    /\ zvui = <<>>
    /\ mainConfig = EmptyMap
    /\ firefoxPrefs = EmptyMap
    /\ customKy = "none"
    /\ svc = 1
    /\ ipv4Set = <<>>
    /\ ipv6Set = <<>>
    /\ net = {}
    /\ publicIP = <<>>
    /\ geoData = <<>>
    /\ ioLog = <<>>
    /\ err = <<>>
    /\ ret = <<>>
    /\ accLog = <<>>

\* camoufoxLaunchOptions(input)
InitMain ==
    /\ entry = "main" /\ pc = "start"
    /\ input \in Options
    /\ processEnv \in ProcessEnvs
    /\ execPath = <<>>
    /\ ipInput = NoGeoip /\ ipProxy = NoProxy
    /\ geoIn = IpObject(False, False)

\* getPublicIP(input, proxy)
InitGetPublicIP ==
    /\ entry = "getPublicIP" /\ pc = "getPublicIP"
    /\ input = NoOptions
    /\ processEnv = EmptyMap
    /\ execPath = <<>>
    /\ \/ /\ ipInput \in {GeoBool(TRUE), IpSpec(V4, Undef), IpSpec(Undef, V6),
                           IpSpec(V4, V6), IpSpec(Undef, Undef),
                           IpSpec(Lit("999.1.1.1"), Undef)}
          /\ ipProxy = NoProxy
       \/ /\ ipInput \in {GeoBool(TRUE), IpSpec(V4, Undef)}
          /\ ipProxy \in {HttpProxy, SocksProxy, FtpProxy}
    /\ geoIn = IpObject(False, False)

\* getGeolocationAndLocale(ipObject, directory)
InitGetGeolocationAndLocale ==
    /\ entry = "getGeolocationAndLocale" /\ pc = "getGeolocationAndLocale"
    /\ input = NoOptions
    /\ processEnv = EmptyMap
    /\ execPath = <<Resolve(ParsedDir(defaultInstall), camoufoxExecutable)>>
    /\ ipInput = NoGeoip /\ ipProxy = NoProxy
    /\ geoIn \in {IpObject(V4, False), IpObject(False, V6), IpObject(V4, V6),
                  IpObject(False, False)}

\* addToConfig on a map that starts empty
InitAddToConfig ==
    /\ entry = "addToConfig" /\ pc = "calls"
    /\ input = NoOptions
    /\ processEnv = EmptyMap
    /\ execPath = <<>>
    /\ ipInput = NoGeoip /\ ipProxy = NoProxy
    /\ geoIn = IpObject(False, False)

Init ==
    /\ Fresh
    /\ \/ InitMain
       \/ InitGetPublicIP
       \/ InitGetGeolocationAndLocale
       \/ InitAddToConfig

Next ==
    \/ Validate
    \/ StatDirectory
    \/ StatExecutable
    \/ GetPublicIP
    \/ QueryService
    \/ AfterPublicIP
    \/ GetGeolocationAndLocale
    \/ StatMmdb
    \/ ReadMmdb
    \/ AfterGeoData
    \/ Assemble
    \/ AddCall

Spec == Init /\ [][Next]_vars

-----------------------------------------------------------------------------
(* the properties *)

\* the GET requests made so far, in order
Gets == SelectSeq(ioLog, LAMBDA e : e.op = "get")
\* the fs.stat calls made so far on the database file
MmdbStats ==
    IF execPath = <<>> THEN <<>>
    ELSE SelectSeq(ioLog, LAMBDA e : e.op = "stat" /\ e.target = mmdbFile)
Lookups(op) == SelectSeq(ioLog, LAMBDA e : e.op = op)

\* the answers that carry a valid literal, and the literal carried
ReturnsIPv4(o) == o \in {"v4a", "v4b"}
ReturnsIPv6(o) == o = "v6a"
LiteralOf(o) ==
    CASE o = "v4a" -> "203.0.113.7"
      [] o = "v4b" -> "198.51.100.9"
      [] o = "v6a" -> "2001:db8::1"
      [] OTHER -> ""

\* the literal of the first answer of the log that satisfies Test, else false
FirstLiteral(log, Test(_)) ==
    LET idx == {i \in 1..Len(log) : Test(log[i].out)}
    IN  IF idx = {} THEN False
        ELSE Lit(LiteralOf(log[CHOOSE i \in idx : \A j \in idx : i <= j].out))

\* C1: in the returned descriptor, env has the keys of mainConfig and of
\* process.env, and on a key both have it holds the engine-setting value;
\* a key only one of them has keeps its value.
C1_EngineSettingsWin ==
    (entry = "main" /\ ret # <<>>) =>
        LET env == ret[1].env
        IN  /\ DOMAIN env = DOMAIN mainConfig \cup DOMAIN processEnv
            /\ \A k \in DOMAIN env :
                 env[k] = IF k \in DOMAIN mainConfig THEN mainConfig[k] ELSE processEnv[k]

\* C2: an auto-detection that has ended has queried all six services in
\* list order, and it failed only with the detection error and only when no
\* answer carried a valid IPv4 or IPv6 literal.
C2_SingleFailureNeverAborts ==
    (entry = "getPublicIP" /\ customKy # "none" /\ pc = "done") =>
        /\ Len(Gets) = Len(whatsMyIPList)
        /\ \A i \in 1..Len(Gets) : Gets[i].target = <<whatsMyIPList[i]>>
        /\ err # <<>> =>
             /\ err = <<E_Detection>>
             /\ \A i \in 1..Len(Gets) :
                  ~ReturnsIPv4(Gets[i].out) /\ ~ReturnsIPv6(Gets[i].out)

\* C3: a value returned by auto-detection has as ipv4 the first valid IPv4
\* literal answered in list order (false if none), as ipv6 the first valid
\* IPv6 literal (false if none), and not both false.
C3_FirstLiteralInListOrder ==
    (customKy # "none" /\ publicIP # <<>>) =>
        /\ publicIP[1].ipv4 = FirstLiteral(Gets, ReturnsIPv4)
        /\ publicIP[1].ipv6 = FirstLiteral(Gets, ReturnsIPv6)
        /\ ~(publicIP[1].ipv4 = False /\ publicIP[1].ipv6 = False)

C3_Witness ==
    /\ customKy # "none" /\ publicIP # <<>>
    /\ \E i, j, k \in 1..Len(Gets) :
         /\ i < j /\ j < k
         /\ Gets[i].out = "garbage" /\ Gets[j].out = "v4b" /\ Gets[k].out = "v4a"
    /\ \E i \in 1..Len(Gets) : Gets[i].out = "v6a"
    /\ publicIP[1] = IpObject(Lit("198.51.100.9"), Lit("2001:db8::1"))

\* C4: once the parse has run on an input with proxy present and geoip
\* absent, the call has thrown the validation error and returned nothing.
C4_ProxyWithoutGeoipFails ==
    (entry = "main" /\ input.proxy.t # "undefined" /\ input.geoip.t = "undefined"
        /\ pc # "start") =>
        /\ pc = "done"
        /\ err = <<E_Validation>>
        /\ ret = <<>>

C4_Witness ==
    /\ entry = "main" /\ pc = "done"
    /\ input.proxy = SocksProxy /\ input.geoip = NoGeoip
    /\ humanizeOK(input.humanize)
    /\ err = <<E_Validation>> /\ ret = <<>>

\* C5: an input with proxy present and geoip absent or false fails the
\* parse, and a descriptor returned with a proxy was built after a
\* public-IP and a geo-locale resolution.
C5_ProxyImpliesGeoResolution ==
    entry = "main" =>
        /\ (input.proxy.t = "object" /\ ~GeoipTruthy(input.geoip) /\ pc # "start") =>
               err = <<E_Validation>>
        /\ (ret # <<>> /\ ret[1].proxy.t = "object") =>
               publicIP # <<>> /\ geoData # <<>>

\* C6: after any calls on a map that starts empty, the map holds exactly
\* the keys called, each with the value of the first call made for it.
C6_FirstWriterWins ==
    entry = "addToConfig" =>
        /\ DOMAIN mainConfig = {accLog[i].key : i \in 1..Len(accLog)}
        /\ \A i \in 1..Len(accLog) :
             (\A j \in 1..(i - 1) : accLog[j].key # accLog[i].key) =>
                 /\ accLog[i].key \in DOMAIN mainConfig
                 /\ mainConfig[accLog[i].key] = accLog[i].value

\* C7: getPublicIP given an explicit IP spec returns each family of the
\* input unchanged and false for an absent one, has made no GET and has
\* built no ky instance.
C7_ExplicitSpecNoNetwork ==
    (ipInputObjectOK(ipInput) /\ pc # "getPublicIP") =>
        /\ publicIP = << IpObject(IF ipInput.ipv4.t = "string" THEN ipInput.ipv4 ELSE False,
                                  IF ipInput.ipv6.t = "string" THEN ipInput.ipv6 ELSE False) >>
        /\ Gets = <<>>
        /\ customKy = "none"

C7_Witness ==
    /\ entry = "getPublicIP" /\ pc = "done"
    /\ ipInput = IpSpec(Undef, V6)
    /\ publicIP = <<IpObject(False, V6)>>
    /\ ioLog = <<>>

\* C8: a geo-locale resolution that found the database file missing or not
\* a regular file threw the database-not-found error; one whose city or
\* country lookup returned nothing threw the no-geo-data error; one whose
\* ISO code has no locale mapping threw the unknown-country-code error; the
\* three errors differ and each ends the call without a record.
C8_DistinctGeoErrors ==
    /\ Cardinality({E_NoMmdb, E_NoGeoData, E_UnknownIso}) = 3
    /\ (MmdbStats # <<>> /\ MmdbStats[1].out \in {"missing", "dir"}) =>
          err = <<E_NoMmdb>> /\ pc = "done" /\ geoData = <<>> /\ ret = <<>>
    /\ (Lookups("cityLookup") # <<>>
          /\ (Lookups("cityLookup")[1].out = "none"
                \/ Lookups("countryLookup")[1].out = "none")) =>
          err = <<E_NoGeoData>> /\ pc = "done" /\ geoData = <<>> /\ ret = <<>>
    /\ (Lookups("cityLookup") # <<>>
          /\ Lookups("cityLookup")[1].out \in {"loc", "locNoTz"}
          /\ Lookups("countryLookup")[1].out = "ZZ") =>
          err = <<E_UnknownIso>> /\ pc = "done" /\ geoData = <<>> /\ ret = <<>>

\* C9: a descriptor returned for geoip truthy and humanize a positive
\* number n has in env the resolver's longitude, latitude, accuracy and
\* locales, humanize true and humanize:maxTime n, and timezone only if the
\* resolver returned one.
C9_EnvHoldsGeoAndHumanize ==
    (entry = "main" /\ ret # <<>> /\ GeoipTruthy(input.geoip)
        /\ input.humanize.t = "number") =>
        LET env == ret[1].env
            gd == geoData[1]
        IN  /\ {"geolocation:longitude", "geolocation:latitude", "geolocation:accuracy",
                "locale:all", "humanize", "humanize:maxTime"} \subseteq DOMAIN env
            /\ env["geolocation:longitude"] = gd.longitude
            /\ env["geolocation:latitude"] = gd.latitude
            /\ env["geolocation:accuracy"] = gd.accuracy
            /\ env["locale:all"] = gd.locales
            /\ env["humanize"] = Bool(TRUE)
            /\ env["humanize:maxTime"] = input.humanize
            /\ ("timezone" \in DOMAIN env) => gd.timezone.t = "string"

\* C10: an input that fails the parse ends the call with the validation
\* error before any I/O and without a descriptor; every call that threw
\* returned no descriptor, and a call that ended threw or returned, not both.
C10_ValidateBeforeIO ==
    entry = "main" =>
        /\ pc = "start" => ioLog = <<>>
        /\ (~safeParseSuccess(input) /\ pc # "start") =>
              pc = "done" /\ err = <<E_Validation>> /\ ioLog = <<>> /\ ret = <<>>
        /\ err # <<>> => pc = "done" /\ ret = <<>>
        /\ pc = "done" => (err = <<>>) # (ret = <<>>)

C10_Witness ==
    /\ entry = "main" /\ pc = "done"
    /\ input.humanize = Num(0)
    /\ input.geoip = GeoBool(TRUE)
    /\ err = <<E_Validation>> /\ ioLog = <<>> /\ ret = <<>>

\* the five cache preferences and the keys of the engine-setting map
CachePrefs ==
    [k \in {"browser.sessionhistory.max_entries", "browser.sessionhistory.max_total_viewers",
            "browser.cache.memory.enable", "browser.cache.disk_cache_ssl",
            "browser.cache.disk.smart_size.enabled"} |->
        CASE k = "browser.sessionhistory.max_entries" -> Num(10)
          [] k = "browser.sessionhistory.max_total_viewers" -> Num(-1)
          [] OTHER -> Bool(TRUE)]
EngineKeys ==
    {"webrtc:ipv4", "webrtc:ipv6", "geolocation:longitude", "geolocation:latitude",
     "geolocation:accuracy", "locale:all", "timezone", "humanize", "humanize:maxTime"}

\* C11: the returned firefoxUserPrefs is exactly the five cache keys with
\* their values when enableCache is truthy and is empty otherwise; the
\* engine-setting map and env hold no cache key, whatever enableCache is, and
\* the preference map never holds a key of geoip or humanize.
C11_CachePrefsOnly ==
    entry = "main" =>
        /\ DOMAIN firefoxPrefs \cap EngineKeys = {}
        /\ DOMAIN mainConfig \subseteq EngineKeys
        /\ pc # "done" => firefoxPrefs = EmptyMap
        /\ ret # <<>> =>
             /\ ret[1].firefoxUserPrefs =
                    IF input.enableCache = Bool(TRUE) THEN CachePrefs ELSE EmptyMap
             /\ DOMAIN ret[1].env \subseteq EngineKeys \cup DOMAIN processEnv

C11_Witness ==
    /\ entry = "main" /\ ret # <<>>
    /\ input.enableCache = Bool(TRUE)
    /\ input.geoip = GeoBool(TRUE) /\ input.humanize = Num(3)
    /\ ret[1].firefoxUserPrefs = CachePrefs
    /\ "humanize:maxTime" \in DOMAIN mainConfig

\* C12 as stated: the returned proxy equals the caller's proxy in every
\* sub-field, and is unset when the caller gave none.
C12_ProxyUnchanged ==
    (entry = "main" /\ ret # <<>>) => ret[1].proxy = input.proxy

\* C12, amended: the returned proxy has the caller's username, password and
\* bypass, and as server the normalized form (the href) of the caller's
\* server; it is unset when the caller gave none.
C12_ProxyNormalized ==
    (entry = "main" /\ ret # <<>>) =>
        IF input.proxy.t = "object"
        THEN /\ ret[1].proxy.t = "object"
             /\ ret[1].proxy.username = input.proxy.username
             /\ ret[1].proxy.password = input.proxy.password
             /\ ret[1].proxy.bypass = input.proxy.bypass
             /\ ret[1].proxy.server = href(input.proxy.server)
        ELSE ret[1].proxy = NoProxy

C12_Witness ==
    /\ entry = "main" /\ ret # <<>>
    /\ input.proxy = HttpProxy
    /\ ret[1].proxy.server # input.proxy.server
    /\ ret[1].proxy.server.host = "proxy.example.com"
    /\ ret[1].proxy.bypass = input.proxy.bypass

====
